---- MODULE Spec2Model ----
(***************************************************************************)
(* A model of the document extraction program: the loader                  *)
(* (file_loader.py), the extraction engine (file_extractor.py), the two    *)
(* persistence sinks (storage.py) and the main script (main.py).           *)
(*                                                                         *)
(* Strings that the code inspects character by character (table cells,     *)
(* column names) are sequences of one-character strings, so that strip()   *)
(* and replace() are computed, not assumed.  Python's None is the value    *)
(* None below; it is no character sequence.                                *)
(***************************************************************************)
EXTENDS Integers, Sequences, FiniteSets, TLC

\* ------------------------------------------------------------------ bounds
\* Tables the relational sink may be handed over one run of the model.
MaxTables == 2
\* save() calls over one run of the model.
MaxSaves == 2
\* Processes (interpreter runs) over one run of the model.
MaxProcs == 2
\* Pages, slides or blocks of a document.
MaxUnits == 2

\* ----------------------------------------------------------------- state
VARIABLES
    table_name,   \* MySQLStorage.table_name, the class attribute of this process
    db,           \* the generated tables of the store, by table name
    fixed,        \* rows of extracted_text, extracted_links, extracted_images
    storage,      \* whether a MySQLStorage instance is connected
    lastSave,     \* what the latest save() of this process did (history)
    given,        \* the table names handed out in this process, in order (history)
    tablesDone,   \* tables handed to save() so far in this run
    saves,        \* save() calls so far in this run
    procs         \* processes started so far in this run

sinkVars == <<table_name, db, fixed, storage, lastSave, given, tablesDone, saves, procs>>

VARIABLES
    path,         \* the path the run is about
    disk,         \* the file at that path
    loader,       \* the Loader: file_path, file_type, file
    extractor,    \* the DataExtractor: file, file_path, file_type
    handles,      \* file handles opened inside extraction calls and still open
    results,      \* per operation, the outcomes its calls have had (history)
    lastOp,       \* the latest extraction call and its outcome (history)
    sandwich,     \* an operation was called again after a different one (history)
    files,        \* what FileStorage.save wrote
    main          \* the outcome of running main.py

engineVars == <<path, disk, loader, extractor, handles, results, lastOp, sandwich, files, main>>
vars == <<engineVars, sinkVars>>

\* ------------------------------------------------------------- data values
None == <<"None">>

cA == <<"A">>
cF == <<"F">>
cBlank == <<>>
cMixed == <<" ", "B", "-", "C", ".", "D", " ", "E", " ">>
cA_B == <<"A", " ", "B">>
cAhB == <<"A", "-", "B">>
v1 == <<"1">>
v2 == <<"2">>
v3 == <<"3">>
v4 == <<"4">>

\* The extracted tables the runs draw from.  A table is a sequence of rows, a
\* row a sequence of cells; row 1 is what the sink calls table[0].
TEmpty == <<>>
TPlain == << <<cA>>, <<v1>> >>
TWide == << <<cA, cMixed>>, <<v1, v2>>, <<v3, v4>> >>
TNull == << <<None, cA>>, <<v1, v2>> >>
TBlank == << <<cBlank, cF>>, <<v1, v2>> >>
TDup == << <<cA_B, cAhB>>, <<v1, v2>> >>
TRagged == << <<cA>>, <<v1, v2>>, <<v3>> >>

TableCatalog == {TEmpty, TPlain, TWide, TNull, TBlank, TDup, TRagged}

RECURSIVE SeqsUpTo(_, _)
SeqsUpTo(S, n) ==
    IF n = 0 THEN {<<>>}
    ELSE LET shorter == SeqsUpTo(S, n - 1)
         IN  shorter \cup {Append(q, x) : q \in {p \in shorter : Len(p) = n - 1}, x \in S}

\* ------------------------------------------------- Python string operations
IsSpace(ch) == ch = " "

RECURSIVE lstrip(_)
lstrip(s) == IF s # <<>> /\ IsSpace(Head(s)) THEN lstrip(Tail(s)) ELSE s

RECURSIVE rstrip(_)
rstrip(s) == IF s # <<>> /\ IsSpace(s[Len(s)]) THEN rstrip(SubSeq(s, 1, Len(s) - 1)) ELSE s

strip(s) == rstrip(lstrip(s))

replace(s, old, new) == [i \in 1..Len(s) |-> IF s[i] = old THEN new ELSE s[i]]

Range(q) == {q[i] : i \in 1..Len(q)}

Distinct(q) == \A i, j \in 1..Len(q) : q[i] = q[j] => i = j

\* ------------------------------------------------------- relational store
\* A generated table: its data columns in order (the id column comes first in
\* the store and is implicit here: a row's id is its position) and its rows,
\* each aligned with the data columns.
idColumn == <<"i", "d">>
NoTable == [exists |-> FALSE, cols |-> <<>>, rows |-> <<>>]
TextColumn(name) == [name |-> name, type |-> "TEXT"]
ColumnNames(T) == <<idColumn>> \o [i \in 1..Len(T.cols) |-> T.cols[i].name]

\* CREATE TABLE <name> (id INT AUTO_INCREMENT PRIMARY KEY, `c1` TEXT, ...):
\* the store rejects an empty definition list after the comma, an empty
\* column name and a repeated column name.
CreateAccepted(cols) ==
    /\ cols # <<>>
    /\ \A i \in 1..Len(cols) : cols[i] # <<>>
    /\ Distinct(<<idColumn>> \o cols)

CreateTable(cols) ==
    [exists |-> TRUE, cols |-> [i \in 1..Len(cols) |-> TextColumn(cols[i])], rows |-> <<>>]

\* ALTER TABLE <name> ADD COLUMN `col` TEXT: rejected for an empty name and
\* for a name the table has; rows present get NULL in the new column.
AlterAccepted(T, col) == col # <<>> /\ col \notin Range(ColumnNames(T))

AddColumn(T, col) ==
    [T EXCEPT !.cols = Append(@, TextColumn(col)),
              !.rows = [r \in 1..Len(T.rows) |-> Append(T.rows[r], None)]]

\* INSERT INTO <name> (`c1`, ...) VALUES (%s, ...) with len(row) placeholders:
\* rejected when the value count differs from the column count or a column
\* is named twice.
InsertAccepted(T, cols, row) ==
    /\ Len(row) = Len(cols)
    /\ Distinct(cols)
    /\ Range(cols) \subseteq Range(ColumnNames(T))

Position(q, x) == CHOOSE i \in 1..Len(q) : q[i] = x

StoredRow(T, cols, row) ==
    [j \in 1..Len(T.cols) |->
        IF T.cols[j].name \in Range(cols) THEN row[Position(cols, T.cols[j].name)] ELSE None]

InsertRow(T, cols, row) == [T EXCEPT !.rows = Append(@, StoredRow(T, cols, row))]

\* ------------------------------------------------------ MySQLStorage.save
TableName(k) == <<"extracted_table_", k>>
Names == {TableName(k) : k \in 1..MaxTables}

sanitize(col) == replace(replace(replace(strip(col), " ", "_"), "-", "_"), ".", "_")

\* [col.strip()... for col in table[0]]: a None cell has no strip().
SanitizeRaises(header) == \E i \in 1..Len(header) : header[i] = None
sanitized_columns(header) == [i \in 1..Len(header) |-> sanitize(header[i])]

\* A sink that rebuilds a table it finds instead of altering it.
RebuildTable(T, cols, existing_columns) ==
    IF CreateAccepted(cols)
    THEN [ok |-> TRUE, table |-> CreateTable(cols)]
    ELSE [ok |-> FALSE, table |-> T]

\* The branch "if result:" of the try block: one ALTER per sanitized column
\* that is not in existing_columns, the list read once before the loop.  The
\* first rejected ALTER raises mysql.connector.Error out of the loop.
RECURSIVE AddMissingColumns(_, _, _)
AddMissingColumns(T, cols, existing_columns) ==
    IF cols = <<>> THEN [ok |-> TRUE, table |-> T]
    ELSE IF Head(cols) \in Range(existing_columns)
         THEN AddMissingColumns(T, Tail(cols), existing_columns)
         ELSE IF AlterAccepted(T, Head(cols))
              THEN AddMissingColumns(AddColumn(T, Head(cols)), Tail(cols), existing_columns)
              ELSE [ok |-> FALSE, table |-> T]

\* The try block of one table: SHOW TABLES LIKE, then ALTERs or CREATE.
EnsureTable(T, cols) ==
    IF T.exists
    THEN AddMissingColumns(T, cols, ColumnNames(T))
    ELSE IF CreateAccepted(cols)
         THEN [ok |-> TRUE, table |-> CreateTable(cols)]
         ELSE [ok |-> FALSE, table |-> T]

\* for row in table[1:]: one INSERT each; a rejected INSERT is printed and
\* the loop goes on.  accepted records, per data row, whether it was stored.
AllRows(table) == table

DataRows(table) == SubSeq(table, 2, Len(table))

RECURSIVE InsertRows(_, _, _, _)
InsertRows(T, cols, rows, accepted) ==
    IF rows = <<>> THEN [table |-> T, accepted |-> accepted]
    ELSE IF InsertAccepted(T, cols, Head(rows))
         THEN InsertRows(InsertRow(T, cols, Head(rows)), cols, Tail(rows), Append(accepted, TRUE))
         ELSE InsertRows(T, cols, Tail(rows), Append(accepted, FALSE))

Entry(table, name, before, step, accepted) ==
    [table |-> table, name |-> name, before |-> before, step |-> step, accepted |-> accepted]

\* The loop "for table_id, table in enumerate(tables)".  st carries the store,
\* the counter and the log of the iterations; status "raised" is the
\* AttributeError of sanitized_columns leaving save().
RECURSIVE SaveTables(_, _)
SaveTables(tables, st) ==
    IF tables = <<>> THEN st
    ELSE
      LET table == Head(tables) IN
      IF table = <<>>
      THEN SaveTables(Tail(tables),
               [st EXCEPT !.log = Append(@, Entry(table, <<>>, NoTable, "empty", <<>>))])
      ELSE IF SanitizeRaises(table[1])
      THEN [st EXCEPT !.status = "raised",
                      !.log = Append(@, Entry(table, <<>>, NoTable, "raised", <<>>))]
      ELSE
        LET cols == sanitized_columns(table[1])
            name == TableName(st.counter)
            before == st.db[name]
            ensured == EnsureTable(before, cols)
        IN  IF ~ensured.ok
            THEN SaveTables(Tail(tables),
                     [st EXCEPT !.counter = @ + 1,
                                !.db[name] = ensured.table,
                                !.printed = @ + 1,
                                !.log = Append(@, Entry(table, name, before, "schema_error", <<>>))])
            ELSE
              LET ins == InsertRows(ensured.table, cols, DataRows(table), <<>>)
                  rejected == Cardinality({i \in 1..Len(ins.accepted) : ~ins.accepted[i]})
              IN  SaveTables(Tail(tables),
                      [st EXCEPT !.counter = @ + 1,
                                 !.db[name] = ins.table,
                                 !.printed = @ + rejected,
                                 !.log = Append(@, Entry(table, name, before, "rows", ins.accepted))])

NoSave == [ran |-> FALSE, tables |-> <<>>, counterBefore |-> 1, status |-> "none",
           printed |-> 0, log |-> <<>>]
NamesIn(log) ==
    LET named == {i \in 1..Len(log) : log[i].name # <<>>}
        Nth[n \in 0..Len(log)] ==
            IF n = 0 THEN <<>>
            ELSE IF n \in named THEN Append(Nth[n - 1], log[n].name) ELSE Nth[n - 1]
    IN  Nth[Len(log)]

\* What the extractor handed to the sink returns when save() calls it: the
\* text (empty or not), the links, the images and the list of tables.
Extracted(budget) ==
    [text : {0, 1}, links : {1}, images : {1}, tables : SeqsUpTo(TableCatalog, budget)]

\* MySQLStorage(extractor): connect, then create_tables() and its commit.
NewMySQLStorage ==
    /\ ~storage
    /\ saves < MaxSaves
    /\ storage' = TRUE
    /\ fixed' = [fixed EXCEPT !.exists = TRUE]
    /\ UNCHANGED <<table_name, db, lastSave, given, tablesDone, saves, procs>>
    /\ UNCHANGED engineVars

\* storage.save(): text, links and images into the fixed tables, then the
\* tables, then conn.commit() unless sanitized_columns raised.
MySQLStorage_save(ex) ==
    /\ storage
    /\ saves < MaxSaves
    /\ LET st0 == [db |-> db, counter |-> table_name, status |-> "running", printed |-> 0,
                   log |-> <<>>]
           st == SaveTables(ex.tables, st0)
       IN  /\ db' = st.db
           /\ table_name' = st.counter
           /\ fixed' = [fixed EXCEPT !.text = @ + ex.text,
                                     !.links = @ + ex.links,
                                     !.images = @ + ex.images]
           /\ lastSave' = [ran |-> TRUE, tables |-> ex.tables,
                           counterBefore |-> table_name,
                           status |-> IF st.status = "raised" THEN "raised" ELSE "committed",
                           printed |-> st.printed, log |-> st.log]
           /\ given' = given \o NamesIn(st.log)
    /\ tablesDone' = tablesDone + Len(ex.tables)
    /\ saves' = saves + 1
    /\ UNCHANGED <<storage, procs>>
    /\ UNCHANGED engineVars

\* storage.close(): conn.close().
MySQLStorage_close ==
    /\ storage
    /\ storage' = FALSE
    /\ UNCHANGED <<table_name, db, fixed, lastSave, given, tablesDone, saves, procs>>
    /\ UNCHANGED engineVars

\* The process ends and a new one starts: the class attribute is 1 again, the
\* store keeps what it holds.
NewProcess ==
    /\ procs < MaxProcs
    /\ procs' = procs + 1
    /\ table_name' = 1
    /\ storage' = FALSE
    /\ lastSave' = NoSave
    /\ given' = <<>>
    /\ UNCHANGED <<db, fixed, tablesDone, saves>>
    /\ UNCHANGED engineVars

\* --------------------------------------------- relational sink: the claims
\* A header cell as a column name, stated from its characters: surrounding
\* spaces dropped, then every space, hyphen and period an underscore.
ColumnOf(cell) ==
    LET solid == {i \in 1..Len(cell) : cell[i] # " "}
        lo == CHOOSE i \in solid : \A j \in solid : i <= j
        hi == CHOOSE i \in solid : \A j \in solid : j <= i
    IN  IF solid = {} THEN <<>>
        ELSE [i \in 1..(hi - lo + 1) |->
                 IF cell[lo + i - 1] \in {" ", "-", "."} THEN "_" ELSE cell[lo + i - 1]]

HeaderColumns(table) == [i \in 1..Len(table[1]) |-> ColumnOf(table[1][i])]

Entries == {i \in 1..Len(lastSave.log) : lastSave.log[i].table # <<>>}
NamedEntries == {i \in Entries : lastSave.log[i].name # <<>>}
NonEmptyTables == {i \in 1..Len(lastSave.tables) : lastSave.tables[i] # <<>>}

After(e) == db[e.name]
NewRows(e) == SubSeq(After(e).rows, Len(e.before.rows) + 1, Len(After(e).rows))
ColumnAt(T, name) == CHOOSE j \in 1..Len(T.cols) : T.cols[j].name = name
HasColumn(T, name) == \E j \in 1..Len(T.cols) : T.cols[j].name = name

\* The stored row holds the cells of the data row under the header's columns,
\* position by position, and null elsewhere.
HoldsRow(T, stored, table, row) ==
    LET cols == HeaderColumns(table) IN
    /\ Len(row) = Len(cols)
    /\ \A i \in 1..Len(cols) : HasColumn(T, cols[i]) /\ stored[ColumnAt(T, cols[i])] = row[i]
    /\ \A j \in 1..Len(T.cols) : T.cols[j].name \notin Range(cols) => stored[j] = None

\* C6: a save visits every extracted table and ends with its commit; a table
\* or row that fails is skipped and never ends the save.
C6_SaveReachesCommit ==
    lastSave.ran =>
        /\ lastSave.status = "committed"
        /\ Len(lastSave.log) = Len(lastSave.tables)

\* C7: every non-empty extracted table of a save gets the name
\* extracted_table_<k> of the counter, which starts at 1 and grows by one per
\* such table, so the names of one process are all different.
C7_EveryTableNamed ==
    /\ table_name = Len(given) + 1
    /\ \A i \in 1..Len(given) : given[i] = TableName(i)
    /\ lastSave.ran =>
          /\ Cardinality(NamedEntries) = Cardinality(NonEmptyTables)
          /\ table_name = lastSave.counterBefore + Cardinality(NonEmptyTables)

\* The part of C7 that is about the counter alone: it counts the names handed
\* out, and no name is handed out twice in a process.
CounterCountsNames ==
    /\ table_name = Len(given) + 1
    /\ \A i \in 1..Len(given) : given[i] = TableName(i)
    /\ Distinct(given)

\* C8 as stated: when the generated name exists already, every header column
\* the table lacks is added as text, nothing is removed or retyped, and the
\* old rows keep their values with null in the added columns.
C8_AllMissingAdded ==
    \A i \in NamedEntries :
        LET e == lastSave.log[i]
            cols == HeaderColumns(e.table)
        IN  e.before.exists =>
              /\ \A c \in 1..Len(cols) :
                    \E j \in 1..Len(After(e).cols) : After(e).cols[j] = TextColumn(cols[c])
              /\ SubSeq(After(e).cols, 1, Len(e.before.cols)) = e.before.cols
              /\ \A r \in 1..Len(e.before.rows) :
                    /\ SubSeq(After(e).rows[r], 1, Len(e.before.cols)) = e.before.rows[r]
                    /\ \A j \in (Len(e.before.cols) + 1)..Len(After(e).cols) :
                          After(e).rows[r][j] = None

\* C8 amended: the header columns the table lacks are added as text in header
\* order up to the first one the store rejects; a rejection skips the table
\* with the later columns not added and no row inserted.  Nothing is removed
\* or retyped, and the old rows keep their values with null in the added
\* columns.
C8_MissingAddedUntilRejected ==
    \A i \in NamedEntries :
        LET e == lastSave.log[i]
            cols == HeaderColumns(e.table)
            had == Range(ColumnNames(e.before))
            lacking == SelectSeq(cols, LAMBDA c : c \notin had)
            added == SubSeq(After(e).cols, Len(e.before.cols) + 1, Len(After(e).cols))
            Rejected(n) == \/ lacking[n] = <<>>
                           \/ \E m \in 1..(n - 1) : lacking[m] = lacking[n]
        IN  e.before.exists =>
              /\ SubSeq(After(e).cols, 1, Len(e.before.cols)) = e.before.cols
              /\ Len(added) <= Len(lacking)
              /\ \A n \in 1..Len(added) : added[n] = TextColumn(lacking[n]) /\ ~Rejected(n)
              /\ IF Len(added) = Len(lacking)
                 THEN e.step = "rows"
                 ELSE /\ Rejected(Len(added) + 1)
                      /\ e.step = "schema_error"
                      /\ NewRows(e) = <<>>
              /\ \A r \in 1..Len(e.before.rows) :
                    /\ SubSeq(After(e).rows[r], 1, Len(e.before.cols)) = e.before.rows[r]
                    /\ \A j \in (Len(e.before.cols) + 1)..Len(After(e).cols) :
                          After(e).rows[r][j] = None

\* C8 witness: a save met a table whose name existed, with rows in it, and
\* added a column to it.
C8_Witness ==
    \E i \in NamedEntries :
        LET e == lastSave.log[i]
        IN  /\ e.before.exists
            /\ e.before.rows # <<>>
            /\ Len(After(e).cols) > Len(e.before.cols)
            /\ e.step = "rows"

\* C9 as stated: of every non-empty table that got a name, every row after row 0 is inserted,
\* in order, cell i under the column of header cell i, and row 0 is not.
C9_EveryRowInserted ==
    \A i \in NamedEntries :
        LET e == lastSave.log[i]
            data == SubSeq(e.table, 2, Len(e.table))
        IN  /\ Len(NewRows(e)) = Len(data)
            /\ \A r \in 1..Len(data) : HoldsRow(After(e), NewRows(e)[r], e.table, data[r])

\* C9 amended: rows are inserted only into a table whose CREATE or ALTERs
\* succeeded; there row 0 is not inserted and, of the rows after it, exactly
\* those the store accepts (as many cells as the header, no column named
\* twice) are inserted, in order, cell i under the column of header cell i.
C9_AcceptedRowsInserted ==
    \A i \in Entries :
        LET e == lastSave.log[i]
            cols == HeaderColumns(e.table)
            kept == SelectSeq(SubSeq(e.table, 2, Len(e.table)),
                              LAMBDA row : Len(row) = Len(cols) /\ Distinct(cols))
        IN  IF e.step = "rows"
            THEN /\ e.name # <<>>
                 /\ Len(NewRows(e)) = Len(kept)
                 /\ \A r \in 1..Len(kept) :
                       HoldsRow(After(e), NewRows(e)[r], e.table, kept[r])
            ELSE e.name # <<>> => NewRows(e) = <<>>

\* C9 witness: a save inserted two rows of one table, under a column whose
\* header cell had a space, a hyphen and a period to replace.
C9_Witness ==
    \E i \in NamedEntries :
        LET e == lastSave.log[i]
        IN  /\ e.step = "rows"
            /\ Len(NewRows(e)) = 2
            /\ \E c \in 1..Len(e.table[1]) :
                  {" ", "-", "."} \subseteq Range(strip(e.table[1][c]))

\* =================================================== loader and extractor
\* A path is a sequence of its parts, "." and "/" being parts of their own.
Paths == { <<"a", ".", "pdf">>, <<"a", ".", "docx">>, <<"a", ".", "pptx">>,
           <<"a", ".", "txt">>, <<"a", ".", "PDF">>, <<".", "pdf">>,
           <<"d", ".", "pdf", "/", "a">> }

LastIndexOf(p, part) ==
    LET at == {i \in 1..Len(p) : p[i] = part}
    IN  IF at = {} THEN 0 ELSE CHOOSE i \in at : \A j \in at : j <= i

\* os.path.splitext(p)[1][1:]: the part after the last dot of the last path
\* component, unless that dot only leads the component.
extension(p) ==
    LET sepIndex == LastIndexOf(p, "/")
        dotIndex == LastIndexOf(p, ".")
    IN  IF dotIndex > sepIndex
           /\ \E i \in (sepIndex + 1)..(dotIndex - 1) : p[i] # "."
        THEN SubSeq(p, dotIndex + 1, Len(p))
        ELSE <<>>

pdf == <<"pdf">>
docx == <<"docx">>
pptx == <<"pptx">>
Supported == {pdf, docx, pptx}

\* What a file holds: units (pages, paragraphs with their relations, or
\* slides) in order, each with its text (a string is the sequence of its
\* characters), its embedded images (TRUE: the image resolves and decodes)
\* and its link entries, the tables, and the properties object.  A link
\* entry either carries a target (a PDF link with a "uri" key, a hyperlink
\* whose relationship resolves, a shape or run with an address) or does not.
Hello == <<"H", "e", "l", "l", "o">>
World == <<"W", "o", "r", "l", "d">>
Uri(target) == [kind |-> "uri", uri |-> target]
NoUri == [kind |-> "goto"]
Unit(text, images, links) == [text |-> text, images |-> images, links |-> links]
Units == { Unit(Hello, <<>>, <<>>), Unit(World, <<TRUE>>, <<Uri("https://x")>>),
           Unit(<<>>, <<FALSE>>, <<>>),
           Unit(Hello, <<>>, <<NoUri, Uri("https://y")>>) }
Properties == [author |-> <<"m", "e">>, title |-> <<"T">>]

Contents(format) ==
    [units : SeqsUpTo(Units, MaxUnits),
     tables : IF format = pdf THEN {<<>>, <<TNull>>} ELSE {<<>>, <<TWide>>},
     props : {Properties}]

NoContent == [units |-> <<>>, tables |-> <<>>, props |-> Properties]
Unreadable == [format |-> <<"other">>, content |-> NoContent]
Missing == [format |-> <<"missing">>, content |-> NoContent]

\* The file at a path: a readable document of the kind its extension names,
\* something no reader can parse, or nothing.
FilesAt(p) ==
    {Unreadable, Missing} \cup
    (IF extension(p) \in Supported
     THEN [format : {extension(p)}, content : Contents(extension(p))]
     ELSE {})

Ops == {"extract_text", "extract_links", "extract_images", "extract_tables"}

Returned(v) == [status |-> "returned", error |-> "", value |-> v]
Raised(e) == [status |-> "raised", error |-> e, value |-> <<>>]
Unsupported == Raised("ValueError: Unsupported file format. Only PDF, DOCX, and PPTX are supported.")
NoFile == Raised("AttributeError: 'NoneType' object")

\* ------------------------------------------------------------ file_loader
NoLoader == [made |-> FALSE, file_path |-> <<>>, file_type |-> <<>>, file |-> <<>>,
             error |-> <<>>]

\* Loader(file_path, file_type) with the file type main.py derives.
NewLoader ==
    /\ ~loader.made
    /\ loader' = [made |-> TRUE, file_path |-> path, file_type |-> extension(path),
                  file |-> <<>>, error |-> <<>>]
    /\ ~main.ran
    /\ UNCHANGED <<path, disk, extractor, handles, results, lastOp, sandwich, files, main>>
    /\ UNCHANGED sinkVars

\* file_reader[file_type](file_path): a KeyError for an unknown type, the
\* reader's error for a file it cannot parse; both leave as ValueError
\* "Invalid file : <cause>" and self.file stays None.
ReaderError(file_type, file) ==
    IF file_type \notin Supported THEN "KeyError"
    ELSE IF file.format # file_type THEN "ReaderError"
    ELSE ""

load_file(l, file) ==
    LET cause == ReaderError(l.file_type, file)
    IN  IF cause = ""
        THEN [l EXCEPT !.file = file.format, !.error = <<>>]
        ELSE [l EXCEPT !.error = <<"ValueError: Invalid file : ", cause>>]

Loader_load_file ==
    /\ loader.made
    /\ ~extractor.made
    /\ loader' = load_file(loader, disk)
    /\ ~main.ran
    /\ UNCHANGED <<path, disk, extractor, handles, results, lastOp, sandwich, files, main>>
    /\ UNCHANGED sinkVars

\* --------------------------------------------------------- file_extractor
NoExtractor == [made |-> FALSE, file |-> <<>>, file_path |-> <<>>, file_type |-> <<>>]

\* DataExtractor(loader)
NewDataExtractor ==
    /\ loader.made
    /\ ~extractor.made
    /\ extractor' = [made |-> TRUE, file |-> loader.file, file_path |-> loader.file_path,
                     file_type |-> extension(loader.file_path)]
    /\ ~main.ran
    /\ UNCHANGED <<path, disk, loader, handles, results, lastOp, sandwich, files, main>>
    /\ UNCHANGED sinkVars

\* A join that writes the separator after every piece.
JoinTerminated(pieces, sep) ==
    LET RECURSIVE each(_)
        each(q) == IF q = <<>> THEN <<>> ELSE Head(q) \o sep \o each(Tail(q))
    IN  each(pieces)

\* sep.join(pieces): the pieces in order with sep between consecutive ones.
RECURSIVE Join(_, _)
Join(pieces, sep) ==
    IF pieces = <<>> THEN <<>>
    ELSE IF Len(pieces) = 1 THEN pieces[1]
    ELSE pieces[1] \o sep \o Join(Tail(pieces), sep)

MetadataFields == {"author", "created", "last_modified_by", "title"}

\* A normalization that copies the attributes the object has and nothing
\* else.
_extract_metadata_present(properties) ==
    [f \in MetadataFields \cap DOMAIN properties |-> properties[f]]

\* getattr(properties, name, '') for each of the four names.
_extract_metadata(properties) ==
    [f \in MetadataFields |-> IF f \in DOMAIN properties THEN properties[f] ELSE <<>>]

_extract_table_row(row) == [i \in 1..Len(row) |-> strip(row[i])]

\* The embedded images in traversal order, each with its unit.
RECURSIVE ImagesOf(_, _)
ImagesOf(units, n) ==
    IF n > Len(units) THEN <<>>
    ELSE [i \in 1..Len(units[n].images) |-> [unit |-> n, index |-> i, ok |-> units[n].images[i]]]
         \o ImagesOf(units, n + 1)

RECURSIVE LinksOf(_, _)
LinksOf(units, n) ==
    IF n > Len(units) THEN <<>>
    ELSE [i \in 1..Len(units[n].links) |-> [unit |-> n, link |-> units[n].links[i]]]
         \o LinksOf(units, n + 1)

\* _process_image: the record of one image; the blob is named by its place.
_process_image(file_type, img) ==
    LET blob == <<img.unit, img.index>> IN
    IF file_type = pdf
    THEN [image |-> blob, image_format |-> "png", image_resolution |-> "1x1",
          page_number |-> img.unit]
    ELSE IF file_type = docx
    THEN [image |-> blob, image_format |-> "png", image_resolution |-> "1x1"]
    ELSE [image |-> blob, image_format |-> "png", image_resolution |-> "1x1",
          slide_number |-> img.unit]

\* images.append(self._process_image(...)) over the traversal: the first
\* image that does not resolve or decode raises out of the loops.
RECURSIVE AppendImages(_, _, _)
AppendImages(file_type, imgs, images) ==
    IF imgs = <<>> THEN Returned(images)
    ELSE IF ~Head(imgs).ok THEN Raised("ImageError")
    ELSE AppendImages(file_type, Tail(imgs), Append(images, _process_image(file_type, Head(imgs))))

\* with <library>.open(self.file_path) as doc: the handle opened at the top
\* of the block is closed when the block is left, by return or by raise.
LeakOnRaise(open, body) == IF body.status = "raised" THEN open + 1 ELSE open

AfterWith(open, body) == (open + 1) - 1

\* The four operations.  Each gives the outcome of the call and the handles
\* open after it.  A Paged operation other than extract_text opens the file
\* at file_path again; open() of a file that is no PDF raises and opens
\* nothing.
Call(outcome, open) == [outcome |-> outcome, handles |-> open]

\* extract_text answering from a result kept by an earlier call of any
\* operation.
extract_text_cached(e, file, open) ==
    IF lastOp.op # "none" THEN Call(lastOp.outcome, open)
    ELSE IF e.file_type \in Supported
    THEN IF e.file # e.file_type THEN Call(NoFile, open)
         ELSE LET texts == [i \in 1..Len(file.content.units) |-> file.content.units[i].text]
                  sep == IF e.file_type = pdf THEN <<>> ELSE <<"\n">>
              IN  Call(Returned(<<Join(texts, sep), _extract_metadata(file.content.props)>>), open)
    ELSE Call(Unsupported, open)

extract_text(e, file, open) ==
    IF e.file_type \in Supported
    THEN IF e.file # e.file_type THEN Call(NoFile, open)
         ELSE LET texts == [i \in 1..Len(file.content.units) |-> file.content.units[i].text]
                  sep == IF e.file_type = pdf THEN <<>> ELSE <<"\n">>
              IN  Call(Returned(<<Join(texts, sep), _extract_metadata(file.content.props)>>), open)
    ELSE Call(Unsupported, open)

extract_images(e, file, open) ==
    IF e.file_type = pdf
    THEN IF file.format # pdf THEN Call(Raised("FileDataError"), open)
         ELSE LET body == AppendImages(pdf, ImagesOf(file.content.units, 1), <<>>)
              IN  Call(body, AfterWith(open, body))
    ELSE IF e.file_type \in {docx, pptx}
    THEN IF e.file # e.file_type THEN Call(NoFile, open)
         ELSE Call(AppendImages(e.file_type, ImagesOf(file.content.units, 1), <<>>), open)
    ELSE Call(Unsupported, open)

extract_tables(e, file, open) ==
    IF e.file_type = pdf
    THEN IF file.format # pdf THEN Call(Raised("PDFSyntaxError"), open)
         ELSE LET body == Returned(file.content.tables)
              IN  Call(body, AfterWith(open, body))
    ELSE IF e.file_type \in {docx, pptx}
    THEN IF e.file # e.file_type THEN Call(NoFile, open)
         ELSE Call(Returned([t \in 1..Len(file.content.tables) |->
                       [r \in 1..Len(file.content.tables[t]) |->
                           _extract_table_row(file.content.tables[t][r])]]), open)
    ELSE Call(Unsupported, open)

\* One link record: link.get("uri", "") with the page number for a PDF,
\* target_ref with page_number None for DOCX, the address with the slide
\* number for PPTX.
_extract_link(file_type, link) ==
    LET url == IF "uri" \in DOMAIN link.link THEN link.link.uri ELSE ""
    IN  IF file_type = pdf THEN [url |-> url, page_number |-> link.unit]
        ELSE IF file_type = docx THEN [url |-> url, page_number |-> None]
        ELSE [url |-> url, slide_number |-> link.unit]

\* The link loop that keeps only the entries with a target, whatever the
\* file type.
LinksWithTarget(file_type, file) ==
    LET found == SelectSeq(LinksOf(file.content.units, 1),
                           LAMBDA l : "uri" \in DOMAIN l.link)
    IN  Returned([i \in 1..Len(found) |-> _extract_link(file_type, found[i])])

\* The link loop: every entry of every page for a PDF; for DOCX only the
\* hyperlinks whose rId is in the part's relationships, for PPTX only the
\* hyperlinks whose address is not empty.
LinksReturned(file_type, file) ==
    LET all == LinksOf(file.content.units, 1)
        found == IF file_type = pdf THEN all
                 ELSE SelectSeq(all, LAMBDA l : "uri" \in DOMAIN l.link)
    IN  Returned([i \in 1..Len(found) |-> _extract_link(file_type, found[i])])

\* extract_links without its else branch: an unknown kind falls through to
\* "return links".
extract_links_silent(e, file, open) ==
    IF e.file_type = pdf
    THEN IF file.format # pdf THEN Call(Raised("FileDataError"), open)
         ELSE LET body == LinksReturned(pdf, file)
              IN  Call(body, AfterWith(open, body))
    ELSE IF e.file_type \in {docx, pptx}
    THEN IF e.file # e.file_type THEN Call(NoFile, open)
         ELSE Call(LinksReturned(e.file_type, file), open)
    ELSE Call(Returned(<<>>), open)

extract_links(e, file, open) ==
    IF e.file_type = pdf
    THEN IF file.format # pdf THEN Call(Raised("FileDataError"), open)
         ELSE LET body == LinksReturned(pdf, file)
              IN  Call(body, AfterWith(open, body))
    ELSE IF e.file_type \in {docx, pptx}
    THEN IF e.file # e.file_type THEN Call(NoFile, open)
         ELSE Call(LinksReturned(e.file_type, file), open)
    ELSE Call(Unsupported, open)

Invoke(op, e, file, open) ==
    IF op = "extract_text" THEN extract_text(e, file, open)
    ELSE IF op = "extract_links" THEN extract_links(e, file, open)
    ELSE IF op = "extract_images" THEN extract_images(e, file, open)
    ELSE extract_tables(e, file, open)

\* The history of one more call.
Noted(h, op, call) ==
    [handles |-> call.handles,
     results |-> [h.results EXCEPT ![op] = @ \cup {call.outcome}],
     lastOp |-> [op |-> op, outcome |-> call.outcome],
     sandwich |-> h.sandwich \/ (h.results[op] # {} /\ h.lastOp.op # op)]

History == [handles |-> handles, results |-> results, lastOp |-> lastOp, sandwich |-> sandwich]

Extract(op) ==
    /\ extractor.made
    /\ LET h == Noted(History, op, Invoke(op, extractor, disk, handles))
       IN  /\ handles' = h.handles
           /\ results' = h.results
           /\ lastOp' = h.lastOp
           /\ sandwich' = h.sandwich
    /\ ~main.ran
    /\ UNCHANGED <<path, disk, loader, extractor, files, main>>
    /\ UNCHANGED sinkVars

DataExtractor_extract_text == Extract("extract_text")
DataExtractor_extract_images == Extract("extract_images")
DataExtractor_extract_tables == Extract("extract_tables")
DataExtractor_extract_links == Extract("extract_links")

\* ------------------------------------------------------------ FileStorage
NoFiles == [made |-> FALSE, text |-> <<>>, metadata |-> <<>>, links |-> <<>>,
            images |-> <<>>, tables |-> <<>>]

\* FileStorage(extractor, output_dir): os.makedirs(output_dir).
NewFileStorage ==
    /\ extractor.made
    /\ ~files.made
    /\ files' = [files EXCEPT !.made = TRUE]
    /\ ~main.ran
    /\ UNCHANGED <<path, disk, loader, extractor, handles, results, lastOp, sandwich, main>>
    /\ UNCHANGED sinkVars

\* What save() writes for one operation's result: extracted_text.txt and
\* metadata.txt, extracted_links.txt (one line per link, with the page or
\* slide number), images/image_<n>.<format>, table_<n>.csv.
Written(dir, op, value) ==
    IF op = "extract_text"
    THEN [dir EXCEPT !.text = <<value[1]>>, !.metadata = <<value[2]>>]
    ELSE IF op = "extract_links"
    THEN [dir EXCEPT !.links = <<[i \in 1..Len(value) |->
                 <<value[i].url,
                   IF "page_number" \in DOMAIN value[i] THEN value[i].page_number
                   ELSE value[i].slide_number>>]>>]
    ELSE IF op = "extract_images"
    THEN [dir EXCEPT !.images = [i \in 1..Len(value) |->
                 [name |-> <<"image_", i, value[i].image_format>>, bytes |-> value[i].image]]]
    ELSE [dir EXCEPT !.tables = [i \in 1..Len(value) |->
                 [name |-> <<"table_", i, "csv">>, rows |-> value[i]]]]

SaveOrder == <<"extract_text", "extract_links", "extract_images", "extract_tables">>

\* FileStorage.save(): each operation is called and its result written before
\* the next is called; an operation that raises ends save() there.
RECURSIVE SaveToFiles(_, _, _, _, _)
SaveToFiles(ops, e, file, h, dir) ==
    IF ops = <<>> THEN [history |-> h, files |-> dir]
    ELSE LET call == Invoke(Head(ops), e, file, h.handles)
             noted == Noted(h, Head(ops), call)
         IN  IF call.outcome.status = "raised"
             THEN [history |-> noted, files |-> dir]
             ELSE SaveToFiles(Tail(ops), e, file, noted,
                              Written(dir, Head(ops), call.outcome.value))

FileStorage_save ==
    /\ files.made
    /\ LET done == SaveToFiles(SaveOrder, extractor, disk, History, files)
       IN  /\ handles' = done.history.handles
           /\ results' = done.history.results
           /\ lastOp' = done.history.lastOp
           /\ sandwich' = done.history.sandwich
           /\ files' = done.files
    /\ ~main.ran
    /\ UNCHANGED <<path, disk, loader, extractor, main>>
    /\ UNCHANGED sinkVars

\* ---------------------------------------------------------------- main.py
\* The names main.py imports (lines 2 to 6) and the names each module of the
\* repository defines at its top level.
MainImports == { <<"file_loader", "Loader">>, <<"file_extractor", "DataExtractor">>,
                 <<"storage", "FileStorage">>, <<"storage", "MySQLStorage">>,
                 <<"show_data", "DisplayData">> }

Defines(module) ==
    IF module = "file_loader" THEN {"FileLoader", "Loader"}
    ELSE IF module = "file_extractor" THEN {"DataExtractor"}
    ELSE IF module = "storage" THEN {"FileStorage", "MySQLStorage"}
    ELSE IF module = "show_data" THEN {"Show"}
    ELSE {}

ImportsResolve == \A imp \in MainImports : imp[2] \in Defines(imp[1])

\* The calls of one run of operations in order, up to the first that raises.
RECURSIVE CallsUntilRaise(_, _, _, _)
CallsUntilRaise(ops, e, file, events) ==
    IF ops = <<>> THEN [error |-> <<>>, events |-> events]
    ELSE LET call == Invoke(Head(ops), e, file, 0)
         IN  IF call.outcome.status = "raised"
             THEN [error |-> <<call.outcome.error>>, events |-> Append(events, Head(ops))]
             ELSE CallsUntilRaise(Tail(ops), e, file, Append(events, Head(ops)))

\* Main.run and Main.process_file as the calls they make: validate_file
\* (which exits for a missing file or an unsupported type), load_file, the
\* four operations, the display when asked for, one sink and its save().
MainFlow(filePath, file, storage_type, ch) ==
    LET file_type == extension(filePath)
        l == load_file([made |-> TRUE, file_path |-> filePath, file_type |-> file_type,
                        file |-> <<>>, error |-> <<>>], file)
        e == [made |-> TRUE, file |-> l.file, file_path |-> filePath,
              file_type |-> extension(filePath)]
        first == CallsUntilRaise(SaveOrder, e, file, <<>>)
        shown == IF ch = "y" THEN Append(first.events, "display") ELSE first.events
        sink == IF storage_type = "file" THEN "FileStorage" ELSE "MySQLStorage"
    IN  IF file.format = <<"missing">> THEN [error |-> <<"exit: File does not exist.">>, events |-> <<>>]
        ELSE IF file_type \notin Supported
        THEN [error |-> <<"exit: Unsupported file type.">>, events |-> <<>>]
        ELSE IF l.error # <<>> THEN [error |-> l.error, events |-> <<"load_file">>]
        ELSE IF first.error # <<>> THEN [error |-> first.error, events |-> <<"load_file">> \o first.events]
        ELSE CallsUntilRaise(SaveOrder, e, file, <<"load_file">> \o shown \o <<sink, "save">>)

\* python main.py: the imports at the top of the module run before anything
\* else; a name that a module does not define raises ImportError there, and
\* the prompts and Main are never reached.
NotRun == [ran |-> FALSE, storage_type |-> "", ch |-> "", error |-> <<>>, events |-> <<>>]

RunMain(storage_type, ch) ==
    /\ ~main.ran
    /\ ~loader.made
    /\ main' = IF ImportsResolve
               THEN LET flow == MainFlow(path, disk, storage_type, ch)
                    IN  [ran |-> TRUE, storage_type |-> storage_type, ch |-> ch,
                         error |-> flow.error, events |-> flow.events]
               ELSE [ran |-> TRUE, storage_type |-> storage_type, ch |-> ch,
                     error |-> <<"ImportError: cannot import name 'DisplayData' from 'show_data'">>,
                     events |-> <<>>]
    /\ UNCHANGED <<path, disk, loader, extractor, handles, results, lastOp, sandwich, files>>
    /\ UNCHANGED sinkVars

\* ------------------------------------------ extractor and main: the claims
\* C1: an extractor whose file type is none of pdf, docx, pptx answers every
\* call of each of the four operations with the unsupported-format error and
\* no result.
C1_UnsupportedRejected ==
    (extractor.made /\ extractor.file_type \notin Supported) =>
        \A op \in Ops : results[op] \subseteq {Unsupported}

\* C1 witness: such an extractor has had all four operations called.
C1_Witness ==
    /\ extractor.made
    /\ extractor.file_type \notin Supported
    /\ \A op \in Ops : results[op] = {Unsupported}

DecodableImages(file_type, units) ==
    LET good == SelectSeq(ImagesOf(units, 1), LAMBDA img : img.ok)
    IN  [i \in 1..Len(good) |-> _process_image(file_type, good[i])]

\* C5: extract_images of a Flowed or Slides document returns every image that
\* decodes, in traversal order, also when another image fails to decode.
C5_DecodeFailureLocal ==
    (/\ lastOp.op = "extract_images"
     /\ extractor.file_type \in {docx, pptx}
     /\ extractor.file = extractor.file_type) =>
        lastOp.outcome = Returned(DecodableImages(extractor.file_type, disk.content.units))

\* C10: no handle that an extraction call opened is open once the call has
\* ended, by return or by raise.
C10_NoHandleLeftOpen == handles = 0

\* C10 witness: extract_images of a Paged document raised inside its with
\* block, after a call that returned, and no handle is open.
C10_Witness ==
    /\ extractor.file_type = pdf
    /\ lastOp.op = "extract_images"
    /\ lastOp.outcome = Raised("ImageError")
    /\ \E op \in {"extract_tables", "extract_links"} :
          \E r \in results[op] : r.status = "returned"
    /\ handles = 0

Loadable == extension(path) \in Supported /\ disk.format = extension(path)
SinkOf(storage_type) == IF storage_type = "file" THEN "FileStorage" ELSE "MySQLStorage"

\* C3: a run of main.py on a file that loads calls the four operations, then
\* displays if asked, then builds the one sink the storage mode names and
\* saves, and that save calls the four operations again.
C3_MainFlowOrder ==
    (main.ran /\ Loadable) =>
        LET shown == IF main.ch = "y" THEN 1 ELSE 0
            ev == main.events
        IN  /\ Len(ev) = 11 + shown
            /\ ev[1] = "load_file"
            /\ Range(SubSeq(ev, 2, 5)) = Ops
            /\ shown = 1 => ev[6] = "display"
            /\ ev[6 + shown] = SinkOf(main.storage_type)
            /\ ev[7 + shown] = "save"
            /\ Range(SubSeq(ev, 8 + shown, 11 + shown)) = Ops

\* C4: a run of main.py on a file that cannot be loaded ends in the error
\* that carries the loader's cause, with no operation, display or sink.
C4_LoadFailureReported ==
    (main.ran /\ extension(path) \in Supported /\ disk = Unreadable) =>
        /\ Len(main.error) = 2
        /\ main.error[1] = "ValueError: Invalid file : "
        /\ main.error[2] = ReaderError(extension(path), disk)
        /\ Range(main.events) \cap (Ops \cup {"display", "FileStorage", "MySQLStorage", "save"}) = {}


\* The number of link entries on the pages before page n.
RECURSIVE LinksBefore(_, _)
LinksBefore(pages, n) ==
    IF n <= 1 THEN 0 ELSE Len(pages[n - 1].links) + LinksBefore(pages, n - 1)

\* C11: extract_links of a Paged document returns one entry for each entry of
\* each page's link list, by page and within a page in list order, each with
\* the 1-based number of its page; a page without links gives no entry, and
\* an entry without a URI is kept with the empty string as its url.
C11_PagedLinksPerEntry ==
    (extractor.file_type = pdf /\ disk.format = pdf /\ lastOp.op = "extract_links") =>
        LET pages == disk.content.units
            got == lastOp.outcome.value
        IN  /\ lastOp.outcome.status = "returned"
            /\ Len(got) = LinksBefore(pages, Len(pages) + 1)
            /\ \A n \in 1..Len(pages) : \A i \in 1..Len(pages[n].links) :
                  got[LinksBefore(pages, n) + i] =
                      [url |-> IF pages[n].links[i].kind = "uri"
                               THEN pages[n].links[i].uri ELSE "",
                       page_number |-> n]

\* C11 witness: a two-page document, no link on page 1, on page 2 a link
\* without a URI and then one with; both entries came back for page 2.
C11_Witness ==
    /\ extractor.file_type = pdf
    /\ disk.format = pdf
    /\ Len(disk.content.units) = 2
    /\ disk.content.units[1].links = <<>>
    /\ disk.content.units[2].links = <<NoUri, Uri("https://y")>>
    /\ lastOp.op = "extract_links"
    /\ lastOp.outcome = Returned(<< [url |-> "", page_number |-> 2],
                                    [url |-> "https://y", page_number |-> 2] >>)

\* The number of characters before paragraph k in the joined text: the
\* earlier paragraphs and one separator after each of them.
RECURSIVE TextBefore(_, _)
TextBefore(paras, k) ==
    IF k <= 1 THEN 0 ELSE Len(paras[k - 1].text) + 1 + TextBefore(paras, k - 1)

\* C13: extract_text of a Flowed document returns the paragraph texts in
\* document order with exactly one newline between consecutive paragraphs and
\* none before the first or after the last; no paragraph gives the empty
\* string, and an empty paragraph is kept as an empty segment.
C13_FlowedTextJoined ==
    (extractor.file_type = docx /\ extractor.file = docx /\ lastOp.op = "extract_text") =>
        /\ lastOp.outcome.status = "returned"
        /\ LET paras == disk.content.units
               n == Len(paras)
               text == lastOp.outcome.value[1]
           IN  /\ Len(text) = IF n = 0 THEN 0 ELSE TextBefore(paras, n) + Len(paras[n].text)
               /\ \A k \in 1..n :
                     SubSeq(text, TextBefore(paras, k) + 1,
                            TextBefore(paras, k) + Len(paras[k].text)) = paras[k].text
               /\ \A k \in 1..(n - 1) : text[TextBefore(paras, k + 1)] = "\n"

\* C13 witness: the paragraphs "Hello" and "World" came back as
\* "Hello\nWorld".
C13_Witness ==
    /\ extractor.file_type = docx
    /\ extractor.file = docx
    /\ Len(disk.content.units) = 2
    /\ disk.content.units[1].text = Hello
    /\ disk.content.units[2].text = World
    /\ lastOp.op = "extract_text"
    /\ lastOp.outcome.status = "returned"
    /\ lastOp.outcome.value[1] = Hello \o <<"\n">> \o World

\* An empty paragraph after "Hello" came back as "Hello\n".
EmptyParagraphKept ==
    /\ extractor.file_type = docx
    /\ Len(disk.content.units) = 2
    /\ disk.content.units[2].text = <<>>
    /\ lastOp.op = "extract_text"
    /\ lastOp.outcome.status = "returned"
    /\ lastOp.outcome.value[1] = Hello \o <<"\n">>

\* C12: _extract_metadata of a properties object that has any subset of
\* author, created, last_modified_by and title never fails and returns a
\* record with exactly these four keys, the object's value for each field it
\* has and the empty string for each it has not.
C12_MetadataNormalized ==
    (/\ extractor.file_type \in Supported
     /\ extractor.file = extractor.file_type
     /\ lastOp.op = "extract_text") =>
        /\ lastOp.outcome.status = "returned"
        /\ LET metadata == lastOp.outcome.value[2]
               properties == disk.content.props
           IN  /\ DOMAIN metadata = {"author", "created", "last_modified_by", "title"}
               /\ \A f \in DOMAIN metadata :
                     metadata[f] = IF f \in DOMAIN properties THEN properties[f] ELSE <<>>

\* C12 witness: the object has an author and a subject but no title; the
\* record came back with that author and the empty string as title.
C12_Witness ==
    /\ extractor.file_type \in Supported
    /\ "title" \notin DOMAIN disk.content.props
    /\ "subject" \in DOMAIN disk.content.props
    /\ "author" \in DOMAIN disk.content.props
    /\ lastOp.op = "extract_text"
    /\ lastOp.outcome.status = "returned"
    /\ lastOp.outcome.value[2].title = <<>>
    /\ lastOp.outcome.value[2].author = disk.content.props.author
    /\ lastOp.outcome.value[2].author # <<>>

\* ------------------------------------------------------- specifications
Init ==
    /\ path \in Paths
    /\ disk \in FilesAt(path)
    /\ loader = NoLoader
    /\ extractor = NoExtractor
    /\ handles = 0
    /\ results = [op \in Ops |-> {}]
    /\ lastOp = [op |-> "none", outcome |-> Returned(<<>>)]
    /\ sandwich = FALSE
    /\ files = NoFiles
    /\ main = NotRun
    /\ table_name = 1
    /\ db = [n \in Names |-> NoTable]
    /\ fixed = [exists |-> FALSE, text |-> 0, links |-> 0, images |-> 0]
    /\ storage = FALSE
    /\ lastSave = NoSave
    /\ given = <<>>
    /\ tablesDone = 0
    /\ saves = 0
    /\ procs = 1

\* The loader, the extractor, the filesystem sink and the main script over
\* one file.
Next ==
    \/ NewLoader
    \/ Loader_load_file
    \/ NewDataExtractor
    \/ DataExtractor_extract_text
    \/ DataExtractor_extract_images
    \/ DataExtractor_extract_tables
    \/ DataExtractor_extract_links
    \/ NewFileStorage
    \/ FileStorage_save
    \/ \E storage_type \in {"file", "sql"}, ch \in {"y", "n"} : RunMain(storage_type, ch)

Spec == Init /\ [][Next]_vars

\* The relational sink alone, handed whatever tables an extractor can return.
SinkInit == Init /\ path = <<"a", ".", "pdf">> /\ disk = Missing

SinkNext ==
    \/ NewMySQLStorage
    \/ \E ex \in Extracted(MaxTables - tablesDone) : MySQLStorage_save(ex)
    \/ MySQLStorage_close
    \/ NewProcess

SinkSpec == SinkInit /\ [][SinkNext]_vars

\* The text operation over documents whose properties object has any of the
\* attributes, each with a value or None.
PropertyNames == MetadataFields \cup {"subject"}
PropertyValues == {<<"v">>, None}
PropertyObjects == UNION {[have -> PropertyValues] : have \in SUBSET PropertyNames}

MetaInit ==
    /\ path \in {<<"a", ".", "pdf">>, <<"a", ".", "docx">>, <<"a", ".", "pptx">>}
    /\ disk \in [format : {extension(path)},
                 content : [units : {<<>>}, tables : {<<>>}, props : PropertyObjects]]
    /\ loader = NoLoader
    /\ extractor = NoExtractor
    /\ handles = 0
    /\ results = [op \in Ops |-> {}]
    /\ lastOp = [op |-> "none", outcome |-> Returned(<<>>)]
    /\ sandwich = FALSE
    /\ files = NoFiles
    /\ main = NotRun
    /\ table_name = 1
    /\ db = [n \in Names |-> NoTable]
    /\ fixed = [exists |-> FALSE, text |-> 0, links |-> 0, images |-> 0]
    /\ storage = FALSE
    /\ lastSave = NoSave
    /\ given = <<>>
    /\ tablesDone = 0
    /\ saves = 0
    /\ procs = 1

MetaNext ==
    \/ NewLoader
    \/ Loader_load_file
    \/ NewDataExtractor
    \/ DataExtractor_extract_text

MetaSpec == MetaInit /\ [][MetaNext]_vars

====
